---- MODULE Spec2Model ----
(***************************************************************************)
(* Model of the per-key token-bucket rate limiter of                       *)
(* native/src/utils/rate_limit.rs: the RateLimiter bucket, the two global  *)
(* mutexes RATE_LIMITERS and LAST_CLEANUP, the opportunistic sweep, and    *)
(* the three exported functions check_rate_limit, get_rate_limit_stats and *)
(* reset_rate_limit, each split at its lock acquisitions and at its reads  *)
(* of Instant::now().                                                      *)
(***************************************************************************)
EXTENDS Integers, FiniteSets, Sequences, TLC

(***************************************************************************)
(* Bounds of the model.                                                    *)
(***************************************************************************)
\* largest burst capacity a caller passes
MaxBurst == 2
\* largest interval (seconds) a caller passes
MaxInterval == 2
\* the clock visits Base + 0..MaxOffset for each base instant
MaxOffset == 1

Threads == {"t1", "t2"}
NoThread == "nobody"
Keys == {"a", "b"}
Bursts == 0..MaxBurst
Intervals == 0..MaxInterval

(***************************************************************************)
(* Program constants (seconds).                                            *)
(***************************************************************************)
CLEANUP_INTERVAL == 300
MAX_IDLE_DURATION == 3600

\* Option::None for last_request, and the not-yet-initialised lazy static
None == -1

\* instants of the runs in which one key is observed: the start, one
\* cleanup interval after it, and the first seconds past the idle limit
ObsInstants == {0, CLEANUP_INTERVAL}
               \cup {MAX_IDLE_DURATION + o : o \in 1..MaxOffset + 2}

\* instants the clock can show: the first seconds, one cleanup interval
\* after start, and the first seconds past the idle limit
Instants == (0..MaxOffset) \cup {CLEANUP_INTERVAL}
            \cup {MAX_IDLE_DURATION + o : o \in 1..MaxOffset}

(***************************************************************************)
(* u32 arithmetic, as two 16-bit halves <<hi, lo>>.                        *)
(***************************************************************************)
Half == 2^16
U32Of(n) == <<n \div Half, n % Half>>
U32MAX == <<Half - 1, Half - 1>>
U32Less(a, b) == a[1] < b[1] \/ (a[1] = b[1] /\ a[2] < b[2])
U32Min(a, b) == IF U32Less(b, a) THEN b ELSE a
NatOf(a) == a[1] * Half + a[2]

\* a + b on u32: the wrapped sum and whether it overflowed
U32Add(a, b) ==
    LET lo == a[2] + b[2]
        hi == a[1] + b[1] + (lo \div Half)
    IN  [sum |-> <<hi % Half, lo % Half>>, overflow |-> hi >= Half]

\* (elapsed.as_secs_f64() / interval.as_secs_f64()) as u32: the cast
\* truncates, saturates +inf to u32::MAX and maps NaN (0.0 / 0.0) to 0
F64DivAsU32(elapsed, interval) ==
    IF interval = 0
    THEN IF elapsed = 0 THEN U32Of(0) ELSE U32MAX
    ELSE U32Of(elapsed \div interval)

(***************************************************************************)
(* RateLimiter                                                             *)
(***************************************************************************)
\* a constructor that starts the bucket empty
new_with_burst_empty(interval_secs, burst_capacity, now) ==
    [last_request   |-> None,
     interval       |-> interval_secs,
     burst_capacity |-> burst_capacity,
     current_tokens |-> 0,
     last_refill    |-> now]

\* RateLimiter::new_with_burst
new_with_burst(interval_secs, burst_capacity, now) ==
    [last_request   |-> None,
     interval       |-> interval_secs,
     burst_capacity |-> burst_capacity,
     current_tokens |-> burst_capacity,
     last_refill    |-> now]

\* the division with its operands swapped
tokens_to_add_swapped(l, now) == F64DivAsU32(l.interval, now - l.last_refill)

tokens_to_add(l, now) == F64DivAsU32(now - l.last_refill, l.interval)

\* self.current_tokens + tokens_to_add
RefillSum(l, tta) == U32Add(U32Of(l.current_tokens), tta)

\* refill that clamps one above the capacity
refill_over(l, now, tta) ==
    IF U32Less(U32Of(0), tta)
    THEN [l EXCEPT !.current_tokens =
                       NatOf(U32Min(RefillSum(l, tta).sum, U32Of(l.burst_capacity + 1))),
                   !.last_refill = now]
    ELSE l

\* refill that leaves last_refill where it was
refill_keep_stamp(l, now, tta) ==
    IF U32Less(U32Of(0), tta)
    THEN [l EXCEPT !.current_tokens =
                       NatOf(U32Min(RefillSum(l, tta).sum, U32Of(l.burst_capacity)))]
    ELSE l

\* lines 44-47, wrapping build
refill(l, now, tta) ==
    IF U32Less(U32Of(0), tta)
    THEN [l EXCEPT !.current_tokens =
                       NatOf(U32Min(RefillSum(l, tta).sum, U32Of(l.burst_capacity))),
                   !.last_refill = now]
    ELSE l

\* self.current_tokens > 0
has_token(l) == l.current_tokens > 0

\* consume that grants without taking the token
consume_keep(l, now) ==
    IF l.current_tokens > 0 THEN [l EXCEPT !.last_request = now] ELSE l

\* RateLimiter::check, lines 50-56
\* a consume step that stamps last_request on a denial too
consume_stamp(l, now) ==
    IF l.current_tokens > 0
    THEN [l EXCEPT !.current_tokens = @ - 1, !.last_request = now]
    ELSE [l EXCEPT !.last_request = now]

consume(l, now) ==
    IF has_token(l)
    THEN [l EXCEPT !.current_tokens = @ - 1, !.last_request = now]
    ELSE l

\* is_expired that never reports an idle bucket
is_expired_never(l, now, max_idle_duration) == FALSE

\* is_expired that measures the idle time from last_refill
is_expired_by_refill(l, now, max_idle_duration) ==
    now - l.last_refill > max_idle_duration

\* is_expired that counts an idle time of exactly max_idle_duration
is_expired_inclusive(l, now, max_idle_duration) ==
    IF l.last_request # None
    THEN now - l.last_request >= max_idle_duration
    ELSE FALSE

is_expired(l, now, max_idle_duration) ==
    IF l.last_request # None
    THEN now - l.last_request > max_idle_duration
    ELSE FALSE

\* a sweep that keeps every bucket
Retain_all(m, now) == m

\* a sweep that also drops the buckets that have no last_request
Retain_admitted(m, now) ==
    [k \in {x \in DOMAIN m : m[x].last_request # None /\ now - m[x].last_request <= MAX_IDLE_DURATION}
        |-> m[k]]

\* limiters.retain(|_, limiter| !limiter.is_expired(MAX_IDLE_DURATION))
Retain(m, now) ==
    LET keep == {k \in DOMAIN m : ~is_expired(m[k], now, MAX_IDLE_DURATION)}
    IN  [k \in keep |-> m[k]]

\* remove that leaves the entry in the map
Remove_keep(m, k) == m

\* a reset that clears the whole map
Remove_all(m, k) == << >>

Remove(m, k) == [x \in (DOMAIN m) \ {k} |-> m[x]]

(***************************************************************************)
(* State                                                                   *)
(***************************************************************************)
VARIABLES
    clock,            \* what Instant::now() returns
    overflow_checks,  \* build profile: u32 overflow panics (TRUE) or wraps
    limiters,         \* RATE_LIMITERS: key -> RateLimiter
    last_cleanup,     \* LAST_CLEANUP (None before the lazy static is built)
    rl_owner,         \* thread holding the RATE_LIMITERS mutex
    cl_owner,         \* thread holding the LAST_CLEANUP mutex
    rl_poison,        \* RATE_LIMITERS poisoned by a panic under its guard
    cl_poison,        \* LAST_CLEANUP poisoned
    call,             \* per thread: the call in progress and its locals
    lastop,           \* per key: the last completed call on it (history)
    run,              \* per key: checks since creation while no time passed
    obs               \* per observed key: admissions per instant, and the
                      \* bucket the key would have had no sweep run (history)

vars == <<clock, overflow_checks, limiters, last_cleanup, rl_owner, cl_owner,
          rl_poison, cl_poison, call, lastop, run, obs>>

NoOp == [kind |-> "none", at |-> 0, got |-> 0]
NoRun == [live |-> FALSE, calls |-> 0, adm |-> 0]

Idle == [pc |-> "idle", op |-> "none", key |-> "a", interval |-> 0, burst |-> 0,
         now |-> 0, tta |-> U32Of(0), ret |-> "none", n |-> 0, before |-> NoOp]

\* the registry before its first call
Constructed ==
    /\ clock = 0
    /\ overflow_checks \in BOOLEAN
    /\ limiters = << >>
    /\ last_cleanup = None
    /\ rl_owner = NoThread
    /\ cl_owner = NoThread
    /\ rl_poison = FALSE
    /\ cl_poison = FALSE
    /\ call = [t \in Threads |-> Idle]
    /\ lastop = [k \in Keys |-> NoOp]
    /\ run = [k \in Keys |-> NoRun]

\* no key is observed
Init == Constructed /\ obs = << >>

\* the observer of a key whose checks all pass interval i and capacity c
Observer(i, c) ==
    [interval |-> i, burst |-> c,
     adm      |-> [x \in ObsInstants |-> 0],
     born     |-> {},
     fresh    |-> FALSE,
     has_twin |-> FALSE,
     twin     |-> new_with_burst(i, c, 0),
     same     |-> TRUE]

\* a bucket l has been created for key k: the next decision is that of a
\* creating check, and the first bucket of k is also the one k keeps when
\* no sweep runs
ObsEntry(o, k, l) ==
    [x \in DOMAIN o |->
        IF x # k THEN o[x]
        ELSE [o[x] EXCEPT !.fresh = TRUE,
                          !.twin = IF o[x].has_twin THEN @ ELSE l,
                          !.has_twin = TRUE]]

\* a check on key k read the clock at now and was decided: count it at its
\* instant, and run RateLimiter::check at the same instant on the bucket k
\* keeps when no sweep runs
ObsConsume(o, k, now, admitted) ==
    [x \in DOMAIN o |->
        IF x # k THEN o[x]
        ELSE LET w == refill(o[x].twin, now, tokens_to_add(o[x].twin, now)) IN
             [o[x] EXCEPT !.adm[now] = IF admitted THEN @ + 1 ELSE @,
                          !.born = IF o[x].fresh THEN @ \cup {now} ELSE @,
                          !.fresh = FALSE,
                          !.twin = consume(w, now),
                          !.same = @ /\ (admitted <=> has_token(w))]]

\* the call of thread t ends with result r
Done(c, r) == [c EXCEPT !.pc = "done", !.ret = r]

\* the history after the call of thread t ended in a panic
AfterPanic(t) ==
    IF call[t].op = "stats" THEN lastop
    ELSE [lastop EXCEPT ![call[t].key] = [NoOp EXCEPT !.kind = "panic"]]

(***************************************************************************)
(* The clock                                                               *)
(***************************************************************************)
Tick(i) ==
    /\ i \in Instants \cup ObsInstants
    /\ i > clock
    /\ clock' = i
    /\ run' = [k \in Keys |-> NoRun]
    /\ UNCHANGED <<overflow_checks, limiters, last_cleanup, rl_owner, cl_owner,
                   rl_poison, cl_poison, call, lastop, obs>>

(***************************************************************************)
(* cleanup_expired_limiters, called first by check_rate_limit              *)
(***************************************************************************)
\* a caller enters check_rate_limit(key, interval_secs, burst_capacity)
CallCheck(t, k, i, c) ==
    /\ call[t].pc = "idle"
    /\ run[k].live => run[k].calls <= MaxBurst + 1
    /\ call' = [call EXCEPT ![t] = [Idle EXCEPT !.pc = "cleanup_lock", !.op = "check",
                                                !.key = k, !.interval = i, !.burst = c]]
    /\ UNCHANGED <<clock, overflow_checks, limiters, last_cleanup, rl_owner, cl_owner,
                   rl_poison, cl_poison, lastop, run, obs>>

\* a throttle gate that does not exclude
CleanupMayLock_always(t) == TRUE

\* a thread may take the LAST_CLEANUP mutex
CleanupMayLock(t) == cl_owner = NoThread

\* LAST_CLEANUP.lock().unwrap(): builds the lazy static on first use
CleanupLock(t) ==
    /\ call[t].pc = "cleanup_lock"
    /\ CleanupMayLock(t)
    /\ last_cleanup' = IF last_cleanup = None THEN clock ELSE last_cleanup
    /\ IF cl_poison
       THEN /\ call' = [call EXCEPT ![t] = Done(@, "panic")]
            /\ UNCHANGED cl_owner
            /\ lastop' = AfterPanic(t)
       ELSE /\ call' = [call EXCEPT ![t].pc = "cleanup_now"]
            /\ cl_owner' = t
            /\ UNCHANGED lastop
    /\ UNCHANGED <<clock, overflow_checks, limiters, rl_owner, rl_poison, cl_poison,
                   run, obs>>

\* a throttle that also skips the sweep at exactly cleanup_interval
TooEarly_inclusive(now, last) == now - last <= CLEANUP_INTERVAL

\* let now = Instant::now(); the early return drops the guard
TooEarly(now, last) == now - last < CLEANUP_INTERVAL

\* an early return that keeps the LAST_CLEANUP guard
EarlyReturn_keeps(t) == t

\* the owner of LAST_CLEANUP after the early return of line 84: the guard
\* goes out of scope
EarlyReturn(t) == NoThread

CleanupNow(t) ==
    /\ call[t].pc = "cleanup_now"
    /\ IF TooEarly(clock, last_cleanup)
       THEN /\ call' = [call EXCEPT ![t].pc = "check_lock"]
            /\ cl_owner' = EarlyReturn(t)
       ELSE /\ call' = [call EXCEPT ![t].pc = "cleanup_sweep", ![t].now = clock]
            /\ UNCHANGED cl_owner
    /\ UNCHANGED <<clock, overflow_checks, limiters, last_cleanup, rl_owner,
                   rl_poison, cl_poison, lastop, run, obs>>

\* a sweep that does not wait for the map's mutex
SweepMayLock_always(t) == TRUE

\* the sweep may take the map's mutex
SweepMayLock(t) == rl_owner = NoThread

\* RATE_LIMITERS.lock().unwrap(); retain; *last_cleanup = now; both guards drop
CleanupSweep(t) ==
    /\ call[t].pc = "cleanup_sweep"
    /\ SweepMayLock(t)
    /\ IF rl_poison
       THEN /\ call' = [call EXCEPT ![t] = Done(@, "panic")]
            /\ cl_poison' = TRUE
            /\ lastop' = AfterPanic(t)
            /\ UNCHANGED <<limiters, last_cleanup, run, obs>>
       ELSE /\ limiters' = Retain(limiters, clock)
            /\ last_cleanup' = call[t].now
            /\ call' = [call EXCEPT ![t].pc = "check_lock"]
            /\ lastop' = [k \in Keys |->
                            IF k \in DOMAIN limiters /\ k \notin DOMAIN limiters'
                            THEN [NoOp EXCEPT !.kind = "evicted"] ELSE lastop[k]]
            /\ run' = [k \in Keys |-> IF k \in DOMAIN limiters' THEN run[k] ELSE NoRun]
            /\ UNCHANGED <<cl_poison, obs>>
    /\ cl_owner' = NoThread
    /\ UNCHANGED <<clock, overflow_checks, rl_owner, rl_poison>>

(***************************************************************************)
(* check_rate_limit, lines 107-113                                         *)
(***************************************************************************)
\* a lock that does not exclude
MayLock_always(t) == TRUE

\* a thread may take the RATE_LIMITERS mutex
MayLock(t) == rl_owner = NoThread

\* let mut limiters = RATE_LIMITERS.lock().unwrap();
CheckLock(t) ==
    /\ call[t].pc = "check_lock"
    /\ MayLock(t)
    /\ IF rl_poison
       THEN /\ call' = [call EXCEPT ![t] = Done(@, "panic")]
            /\ UNCHANGED rl_owner
            /\ lastop' = AfterPanic(t)
       ELSE /\ call' = [call EXCEPT ![t].pc = "entry"]
            /\ rl_owner' = t
            /\ UNCHANGED lastop
    /\ UNCHANGED <<clock, overflow_checks, limiters, last_cleanup, cl_owner,
                   rl_poison, cl_poison, run, obs>>

\* a lookup that overwrites the parameters of an existing bucket
or_insert_overwrite(m, k, interval_secs, burst_capacity, now) ==
    IF k \in DOMAIN m
    THEN [m EXCEPT ![k].interval = interval_secs, ![k].burst_capacity = burst_capacity]
    ELSE m @@ (k :> new_with_burst(interval_secs, burst_capacity, now))

\* limiters.entry(key).or_insert_with(|| RateLimiter::new_with_burst(..))
or_insert_with(m, k, interval_secs, burst_capacity, now) ==
    IF k \in DOMAIN m
    THEN m
    ELSE m @@ (k :> new_with_burst(interval_secs, burst_capacity, now))

Entry(t) ==
    LET c == call[t] IN
    /\ c.pc = "entry"
    /\ limiters' = or_insert_with(limiters, c.key, c.interval, c.burst, clock)
    /\ run' = IF c.key \in DOMAIN limiters THEN run
              ELSE [run EXCEPT ![c.key] = [live |-> TRUE, calls |-> 0, adm |-> 0]]
    /\ call' = [call EXCEPT ![t].pc = "check_now"]
    /\ obs' = IF c.key \in DOMAIN limiters THEN obs
              ELSE ObsEntry(obs, c.key, limiters'[c.key])
    /\ UNCHANGED <<clock, overflow_checks, last_cleanup, rl_owner, cl_owner,
                   rl_poison, cl_poison, lastop>>

\* RateLimiter::check, lines 38-42
CheckNow(t) ==
    LET c == call[t] IN
    /\ c.pc = "check_now"
    /\ call' = [call EXCEPT ![t].pc = "refill", ![t].now = clock,
                            ![t].tta = tokens_to_add(limiters[c.key], clock)]
    /\ UNCHANGED <<clock, overflow_checks, limiters, last_cleanup, rl_owner, cl_owner,
                   rl_poison, cl_poison, lastop, run, obs>>

\* the addition of line 45 overflows u32
Overflows(l, tta) == U32Less(U32Of(0), tta) /\ RefillSum(l, tta).overflow

\* RateLimiter::check, lines 44-47; an overflow panics under the map's guard
\* when the build checks overflow, and wraps otherwise
Refill(t) ==
    LET c == call[t]
        l == limiters[c.key]
    IN
    /\ c.pc = "refill"
    /\ IF overflow_checks /\ Overflows(l, c.tta)
       THEN /\ call' = [call EXCEPT ![t] = Done(@, "panic")]
            /\ rl_poison' = TRUE
            /\ rl_owner' = NoThread
            /\ UNCHANGED limiters
            /\ lastop' = AfterPanic(t)
       ELSE /\ limiters' = [limiters EXCEPT ![c.key] = refill(l, c.now, c.tta)]
            /\ call' = [call EXCEPT ![t].pc = "consume"]
            /\ UNCHANGED <<rl_poison, rl_owner>>
            /\ UNCHANGED lastop
    /\ UNCHANGED <<clock, overflow_checks, last_cleanup, cl_owner, cl_poison,
                   run, obs>>

\* the history entry a completed check leaves for its key
CheckOp(l, prev, now) ==
    IF ~has_token(l) THEN [kind |-> "denied", at |-> now, got |-> 0]
    ELSE IF prev.kind = "denied" /\ now >= prev.at + l.interval
         THEN [kind |-> "readmit", at |-> now, got |-> l.current_tokens]
         ELSE [kind |-> "admitted", at |-> 0, got |-> 0]

\* RateLimiter::check, lines 50-56, and the return of check_rate_limit
Consume(t) ==
    LET c == call[t]
        l == limiters[c.key]
    IN
    /\ c.pc = "consume"
    /\ limiters' = [limiters EXCEPT ![c.key] = consume(l, c.now)]
    /\ call' = [call EXCEPT ![t] = [Done(@, IF has_token(l) THEN "admitted" ELSE "denied")
                                       EXCEPT !.before = lastop[c.key]]]
    /\ rl_owner' = NoThread
    /\ lastop' = [lastop EXCEPT ![c.key] = CheckOp(l, @, c.now)]
    /\ run' = [run EXCEPT ![c.key] =
                 IF @.live
                 THEN [@ EXCEPT !.calls = @ + 1,
                                !.adm = IF has_token(l) THEN @ + 1 ELSE @]
                 ELSE @]
    /\ obs' = ObsConsume(obs, c.key, c.now, has_token(l))
    /\ UNCHANGED <<clock, overflow_checks, last_cleanup, cl_owner, rl_poison, cl_poison>>

\* the caller has the result and is free to call again
Return(t) ==
    /\ call[t].pc = "done"
    /\ call' = [call EXCEPT ![t] = Idle]
    /\ UNCHANGED <<clock, overflow_checks, limiters, last_cleanup, rl_owner, cl_owner,
                   rl_poison, cl_poison, lastop, run, obs>>

(***************************************************************************)
(* reset_rate_limit                                                        *)
(***************************************************************************)
CallReset(t, k) ==
    /\ call[t].pc = "idle"
    /\ call' = [call EXCEPT ![t] = [Idle EXCEPT !.pc = "reset_lock", !.op = "reset",
                                                !.key = k]]
    /\ UNCHANGED <<clock, overflow_checks, limiters, last_cleanup, rl_owner, cl_owner,
                   rl_poison, cl_poison, lastop, run, obs>>

ResetLock(t) ==
    /\ call[t].pc = "reset_lock"
    /\ MayLock(t)
    /\ IF rl_poison
       THEN /\ call' = [call EXCEPT ![t] = Done(@, "panic")]
            /\ UNCHANGED rl_owner
            /\ lastop' = AfterPanic(t)
       ELSE /\ call' = [call EXCEPT ![t].pc = "reset_remove"]
            /\ rl_owner' = t
            /\ UNCHANGED lastop
    /\ UNCHANGED <<clock, overflow_checks, limiters, last_cleanup, cl_owner,
                   rl_poison, cl_poison, run, obs>>

\* let removed = limiters.remove(&key).is_some();
ResetRemove(t) ==
    LET c == call[t] IN
    /\ c.pc = "reset_remove"
    /\ limiters' = Remove(limiters, c.key)
    /\ call' = [call EXCEPT ![t] = [Done(@, IF c.key \in DOMAIN limiters
                                             THEN "removed" ELSE "absent")
                                       EXCEPT !.before = lastop[c.key]]]
    /\ rl_owner' = NoThread
    /\ lastop' = [lastop EXCEPT ![c.key] = [NoOp EXCEPT !.kind = "reset"]]
    /\ run' = [run EXCEPT ![c.key] = NoRun]
    /\ UNCHANGED <<clock, overflow_checks, last_cleanup, cl_owner, rl_poison, cl_poison,
                   obs>>

(***************************************************************************)
(* get_rate_limit_stats                                                    *)
(***************************************************************************)
CallStats(t) ==
    /\ call[t].pc = "idle"
    /\ call' = [call EXCEPT ![t] = [Idle EXCEPT !.pc = "stats_lock", !.op = "stats"]]
    /\ UNCHANGED <<clock, overflow_checks, limiters, last_cleanup, rl_owner, cl_owner,
                   rl_poison, cl_poison, lastop, run, obs>>

StatsLock(t) ==
    /\ call[t].pc = "stats_lock"
    /\ MayLock(t)
    /\ IF rl_poison
       THEN /\ call' = [call EXCEPT ![t] = Done(@, "panic")]
            /\ UNCHANGED rl_owner
            /\ lastop' = AfterPanic(t)
       ELSE /\ call' = [call EXCEPT ![t].pc = "stats_len"]
            /\ rl_owner' = t
            /\ UNCHANGED lastop
    /\ UNCHANGED <<clock, overflow_checks, limiters, last_cleanup, cl_owner,
                   rl_poison, cl_poison, run, obs>>

\* a count of the buckets that have admitted a request only
len_active(m) == Cardinality({k \in DOMAIN m : m[k].last_request # None})

\* limiters.len()
len(m) == Cardinality(DOMAIN m)

\* let active_limiters = cx.number(limiters.len() as f64); the guard drops
StatsLen(t) ==
    /\ call[t].pc = "stats_len"
    /\ call' = [call EXCEPT ![t] = [Done(@, "count") EXCEPT !.n = len(limiters)]]
    /\ rl_owner' = NoThread
    /\ UNCHANGED <<clock, overflow_checks, limiters, last_cleanup, cl_owner,
                   rl_poison, cl_poison, lastop, run, obs>>

(***************************************************************************)
(* Specifications                                                          *)
(***************************************************************************)
\* the steps of thread t, its calls drawn from keys K, intervals I, bursts B
Step(t, K, I, B) ==
    \/ \E k \in K, i \in I, c \in B : CallCheck(t, k, i, c)
    \/ CleanupLock(t)
    \/ CleanupNow(t)
    \/ CleanupSweep(t)
    \/ CheckLock(t)
    \/ Entry(t)
    \/ CheckNow(t)
    \/ Refill(t)
    \/ Consume(t)
    \/ Return(t)
    \/ \E k \in K : CallReset(t, k)
    \/ ResetLock(t)
    \/ ResetRemove(t)
    \/ CallStats(t)
    \/ StatsLock(t)
    \/ StatsLen(t)

\* one caller at a time (the JavaScript thread), one key, every parameter
Next ==
    \/ Step("t1", {"a"}, Intervals, Bursts)
    \/ \E i \in Instants : Tick(i)

Spec == Init /\ [][Next]_vars

\* callers on two threads
MTIntervals == {1}
MTBursts == {1, 2}
NextMT ==
    \/ \E t \in Threads : Step(t, {"a"}, MTIntervals, MTBursts)
    \/ \E i \in Instants : Tick(i)

SpecMT == Init /\ [][NextMT]_vars

\* one caller, two keys, one interval, capacities 0 and 1
K2Intervals == {1}
K2Bursts == {0, 1}
Next2K ==
    \/ Step("t1", Keys, K2Intervals, K2Bursts)
    \/ \E i \in Instants : Tick(i)

Spec2K == Init /\ [][Next2K]_vars

\* the steps of a check call of thread t after its entry
CheckSteps(t) ==
    \/ CleanupLock(t)
    \/ CleanupNow(t)
    \/ CleanupSweep(t)
    \/ CheckLock(t)
    \/ Entry(t)
    \/ CheckNow(t)
    \/ Refill(t)
    \/ Consume(t)
    \/ Return(t)

\* one caller that checks key a always with the same interval and capacity
\* and never resets it, while every admission is recorded
ObsParams == {<<1, 2>>, <<2, 1>>, <<MAX_IDLE_DURATION + 1, 2>>}
InitObs == Constructed /\ \E p \in ObsParams : obs = [k \in {"a"} |-> Observer(p[1], p[2])]

NextObs ==
    \/ CallCheck("t1", "a", obs["a"].interval, obs["a"].burst)
    \/ CheckSteps("t1")
    \/ \E i \in ObsInstants : Tick(i)

SpecObs == InitObs /\ [][NextObs]_vars

\* the steps inside a call of thread t, from its first lock to its result
Progress(t) ==
    \/ CleanupLock(t)
    \/ CleanupNow(t)
    \/ CleanupSweep(t)
    \/ CheckLock(t)
    \/ Entry(t)
    \/ CheckNow(t)
    \/ Refill(t)
    \/ Consume(t)
    \/ ResetLock(t)
    \/ ResetRemove(t)
    \/ StatsLock(t)
    \/ StatsLen(t)

\* two callers, one key, under a scheduler that lets a thread take a step
\* of its call if it can take one again and again; with interval 0 the
\* calls that end in a panic and poison a mutex are among the behaviours
LiveIntervals == {0}
LiveBursts == {1}
NextLive ==
    \/ \E t \in Threads : Step(t, {"a"}, LiveIntervals, LiveBursts)
    \/ \E i \in Instants : Tick(i)

SpecLive == Init /\ [][NextLive]_vars /\ \A t \in Threads : SF_vars(Progress(t))

(***************************************************************************)
(* Properties                                                              *)
(***************************************************************************)
Min(a, b) == IF a < b THEN a ELSE b

\* thread t has finished a check_rate_limit call with an admission decision
Decided(t) ==
    /\ call[t].op = "check"
    /\ call[t].pc = "done"
    /\ call[t].ret \in {"admitted", "denied"}

\* thread t is inside RateLimiter::check on its key's bucket
InCheckBody(t) == call[t].op = "check" /\ call[t].pc \in {"check_now", "refill", "consume"}

\* thread t is between taking and dropping the RATE_LIMITERS guard
InMapSection(t) ==
    call[t].pc \in {"entry", "check_now", "refill", "consume", "reset_remove", "stats_len"}

\* C1 Admission bound: while no time has passed since a key's bucket was
\* created with capacity C, the checks made on it so far admitted exactly
\* min(number of checks, C): the first C are admitted, later ones denied.
C1_AdmissionBound ==
    \A k \in DOMAIN limiters :
        run[k].live => run[k].adm = Min(run[k].calls, limiters[k].burst_capacity)

\* C1 witness: a fresh key with capacity 2 has had three checks in the same
\* instant; two were admitted and the third has just been denied.
C1_Witness ==
    /\ "a" \in DOMAIN limiters
    /\ run["a"].live /\ run["a"].calls = 3 /\ run["a"].adm = 2
    /\ limiters["a"].burst_capacity = 2
    /\ Decided("t1") /\ call["t1"].ret = "denied"

\* C2 Per-key atomicity: at most one thread is between taking and dropping
\* the mutex of the map, that thread is the mutex's owner, and while no
\* refill has happened since a bucket was created its tokens plus the checks
\* admitted so far equal its capacity, so N concurrent checks on k tokens
\* admit min(N, k) and no token is granted twice.
C2_PerKeyAtomicity ==
    /\ \A t \in Threads : InMapSection(t) => rl_owner = t
    /\ \A t1, t2 \in Threads : InMapSection(t1) /\ InMapSection(t2) => t1 = t2
    /\ \A k \in DOMAIN limiters :
          run[k].live =>
              /\ run[k].adm = Min(run[k].calls, limiters[k].burst_capacity)
              /\ limiters[k].current_tokens + run[k].adm = limiters[k].burst_capacity

\* C2 witness: two threads checked the same fresh key of capacity 1 in the
\* same instant; both hold their results, one admitted and one denied.
C2_Witness ==
    /\ Decided("t1") /\ Decided("t2")
    /\ call["t1"].key = call["t2"].key
    /\ run[call["t1"].key].live /\ run[call["t1"].key].calls = 2
    /\ limiters[call["t1"].key].burst_capacity = 1
    /\ {call["t1"].ret, call["t2"].ret} = {"admitted", "denied"}

\* C3 Cap ceiling: every bucket in the map has 0 <= tokens <= capacity, in
\* every state, whatever calls and idle time came before.
C3_CapCeiling ==
    \A k \in DOMAIN limiters :
        /\ 0 <= limiters[k].current_tokens
        /\ limiters[k].current_tokens <= limiters[k].burst_capacity

\* C3 witness: a check has just refilled a bucket after an idle time worth
\* more tokens than its capacity, and the bucket holds exactly its capacity.
C3_Witness ==
    \E t \in Threads :
        /\ call[t].op = "check" /\ call[t].pc = "consume"
        /\ U32Less(U32Of(limiters[call[t].key].burst_capacity), call[t].tta)
        /\ limiters[call[t].key].burst_capacity >= 1
        /\ limiters[call[t].key].last_request # None
        /\ limiters[call[t].key].current_tokens = limiters[call[t].key].burst_capacity
        /\ limiters[call[t].key].last_refill = call[t].now
        /\ call[t].now >= CLEANUP_INTERVAL

\* C4 First-writer-wins: no step changes the interval or the capacity of a
\* bucket that stays in the map, and a bucket that enters the map carries
\* the interval and capacity of the check call that created it.
C4_FirstWriterWins ==
    [][\A k \in Keys :
          /\ (k \in DOMAIN limiters /\ k \in DOMAIN limiters') =>
                /\ limiters'[k].interval = limiters[k].interval
                /\ limiters'[k].burst_capacity = limiters[k].burst_capacity
          /\ (k \notin DOMAIN limiters /\ k \in DOMAIN limiters') =>
                \E t \in Threads :
                    /\ call[t].op = "check" /\ call[t].key = k
                    /\ limiters'[k].interval = call[t].interval
                    /\ limiters'[k].burst_capacity = call[t].burst]_vars

\* C4 witness: a check that passed another interval and another capacity
\* than its key's bucket has was decided on a bucket that existed before
\* the call, and the bucket kept its own interval and capacity.
C4_Witness ==
    \E t \in Threads :
        /\ Decided(t)
        /\ call[t].before.kind \in {"admitted", "denied", "readmit"}
        /\ call[t].key \in DOMAIN limiters
        /\ limiters[call[t].key].interval # call[t].interval
        /\ limiters[call[t].key].burst_capacity # call[t].burst

\* the bucket thread t is about to run RateLimiter::check on is the one a
\* never-seen key gets from this call
FreshFor(t) ==
    /\ call[t].key \in DOMAIN limiters
    /\ limiters[call[t].key] =
           new_with_burst(call[t].interval, call[t].burst, limiters[call[t].key].last_refill)
    /\ limiters[call[t].key].last_refill <= clock

\* thread t has done the sweep and the lookup-or-create of a check
AtAlgorithm(t) == call[t].op = "check" /\ call[t].pc = "check_now"

\* C5 as stated: a key whose last call (a denied check, or an eviction) is
\* more than max_idle_duration before a sweep gets, at its next check, the
\* bucket of a never-seen key.
C5_Original ==
    \A t \in Threads :
        LET k == call[t].key IN
        (/\ AtAlgorithm(t)
         /\ \/ lastop[k].kind = "evicted"
            \/ lastop[k].kind = "denied" /\ last_cleanup - lastop[k].at > MAX_IDLE_DURATION)
        => FreshFor(t)

\* C5 amended: a bucket that has admitted a request never survives a sweep
\* made more than max_idle_duration after its last admitted request, and
\* when the last thing that happened to a key was its eviction, the bucket
\* the next check works on is the one a never-seen key gets: tokens =
\* capacity = the call's capacity, the call's interval, no last_request,
\* and a last_refill taken after the idle limit had passed.
C5_EvictionResets ==
    /\ \A k \in DOMAIN limiters :
          limiters[k].last_request # None =>
              last_cleanup - limiters[k].last_request <= MAX_IDLE_DURATION
    /\ \A t \in Threads :
          (AtAlgorithm(t) /\ lastop[call[t].key].kind = "evicted") =>
              /\ FreshFor(t)
              /\ limiters[call[t].key].last_refill > MAX_IDLE_DURATION

\* C5 witness: the first check after an eviction is about to run on a
\* bucket with a full burst of two tokens.
C5_Witness ==
    \E t \in Threads :
        /\ AtAlgorithm(t)
        /\ lastop[call[t].key].kind = "evicted"
        /\ limiters[call[t].key].current_tokens = 2

\* the check of thread t is the first call on its key since a reset
AfterReset(t) ==
    /\ call[t].op = "check"
    /\ call[t].pc = "done"
    /\ \/ call[t].before.kind = "reset"
       \/ lastop[call[t].key].kind = "reset"

WaitedAfterDenial(t) ==
    /\ Decided(t)
    /\ call[t].before.kind = "denied"
    /\ limiters[call[t].key].burst_capacity > 0
    /\ call[t].now >= call[t].before.at + limiters[call[t].key].interval

\* the check of thread t came, with no time in between, right after a
\* check that was admitted a full interval or more after a denial
RightAfterReadmit(t) ==
    /\ Decided(t)
    /\ call[t].before.kind = "readmit"
    /\ call[t].now = call[t].before.at

\* C7 as stated, read on buckets with a positive interval: the check made
\* a full interval or more after a denial is admitted, and the check right
\* after that one is denied.
C7_Original ==
    \A t \in Threads :
        (Decided(t) /\ limiters[call[t].key].interval >= 1) =>
            /\ WaitedAfterDenial(t) => call[t].ret = "admitted"
            /\ RightAfterReadmit(t) => call[t].ret = "denied"

\* C7 amended: the check made a full interval or more, and some time, after
\* a denial is admitted; the check right after that one is denied exactly
\* when the refill had made one token available, that is when
\* min(floor(elapsed / interval), capacity) = 1.
C7_RefillAfterDenial ==
    \A t \in Threads :
        /\ (WaitedAfterDenial(t) /\ call[t].now > call[t].before.at)
              => call[t].ret = "admitted"
        /\ RightAfterReadmit(t) => (call[t].ret = "denied" <=> call[t].before.got = 1)

\* C7 witness: after a denial and a wait of one interval exactly one token
\* accrued, it was granted, and the check right after was denied.
C7_Witness ==
    \E t \in Threads :
        /\ RightAfterReadmit(t)
        /\ call[t].before.got = 1
        /\ limiters[call[t].key].burst_capacity = 2
        /\ limiters[call[t].key].interval = 1
        /\ call[t].ret = "denied"

\* C8 as stated: no check panics, on a bucket with interval 0 the sum
\* tokens + tokens_to_add never overflows u32, and the mutexes stay usable
\* by later calls.
C8_ZeroIntervalSafe ==
    /\ \A t \in Threads :
          /\ call[t].ret # "panic"
          /\ (call[t].pc = "refill" /\ limiters[call[t].key].interval = 0)
                => ~Overflows(limiters[call[t].key], call[t].tta)
    /\ ~rl_poison
    /\ ~cl_poison

\* C9 as stated: every check decided on a bucket with interval 0 and a
\* capacity above 0 is admitted.
C9_ZeroIntervalUnlimited ==
    \A t \in Threads :
        (/\ call[t].op = "check" /\ call[t].pc = "done"
         /\ call[t].key \in DOMAIN limiters
         /\ limiters[call[t].key].interval = 0
         /\ limiters[call[t].key].burst_capacity > 0)
        => call[t].ret = "admitted"

\* a sweep running now would remove the bucket of key k
Expired(k) == k \in DOMAIN limiters /\ is_expired(limiters[k], clock, MAX_IDLE_DURATION)

\* C10 Eviction and check are mutually exclusive: a thread that has looked
\* up or created its bucket and has not yet returned its decision owns the
\* mutex of the map and its bucket is in the map, whatever sweeps and resets
\* other threads attempt meanwhile.
C10_EvictionExcludesCheck ==
    \A t \in Threads :
        InCheckBody(t) => (rl_owner = t /\ call[t].key \in DOMAIN limiters)

\* C10 witness: one thread is inside RateLimiter::check on a bucket that a
\* sweep would remove, while another thread's sweep waits for the mutex.
C10_Witness ==
    \E t1, t2 \in Threads :
        /\ InCheckBody(t1)
        /\ Expired(call[t1].key)
        /\ call[t2].pc = "cleanup_sweep"

\* this step is the full-map scan of thread t: retain runs and last_cleanup
\* is stored
SweepStep(t) == call[t].pc = "cleanup_sweep" /\ call'[t].pc = "check_lock"

\* thread t is between taking and dropping the LAST_CLEANUP guard
InGate(t) == call[t].pc \in {"cleanup_now", "cleanup_sweep"}

\* C11 Sweep throttle: every full-map scan stores a last_cleanup that is at
\* least cleanup_interval after the one it replaces, so the instants of any
\* two scans are at least cleanup_interval apart, and the scanning thread is
\* the owner of the LAST_CLEANUP mutex and the only thread between the test
\* of now - last_cleanup and the update of last_cleanup.
C11_SweepThrottle ==
    [][\A t \in Threads :
          SweepStep(t) =>
              /\ last_cleanup' - last_cleanup >= CLEANUP_INTERVAL
              /\ cl_owner = t
              /\ \A u \in Threads \ {t} : ~InGate(u)]_vars

\* C11 witness: with last_cleanup at 300 s, one thread has passed the test
\* at 3601 s and is about to scan while the other thread's check waits at
\* the gate.
C11_Witness ==
    \E t, u \in Threads :
        /\ call[t].pc = "cleanup_sweep"
        /\ last_cleanup = CLEANUP_INTERVAL
        /\ call[t].now - last_cleanup >= CLEANUP_INTERVAL
        /\ call[u].pc = "cleanup_lock"

\* the instant of the last check made on key k, read off the history: the
\* instant of a denial, else the last admitted request, else (a bucket that
\* is being created) the present
LastChecked(k) ==
    IF lastop[k].kind = "denied" THEN lastop[k].at
    ELSE IF limiters[k].last_request # None THEN limiters[k].last_request
    ELSE clock

\* C12 as stated: in every state every key in the map has been checked
\* within the last max_idle_duration.
C12_Original ==
    \A k \in DOMAIN limiters : clock - LastChecked(k) <= MAX_IDLE_DURATION

\* C12 amended: right after every sweep, every key in the map either has
\* never had a request admitted or had its last request admitted within the
\* max_idle_duration before the sweep.
C12_FreshAfterSweep ==
    [][\A t \in Threads :
          SweepStep(t) =>
              \A k \in DOMAIN limiters' :
                  \/ limiters'[k].last_request = None
                  \/ clock - limiters'[k].last_request <= MAX_IDLE_DURATION]_vars

\* C12 witness: a sweep has just run at 3601 s and kept a bucket whose last
\* admitted request was at 1 s, exactly max_idle_duration before.
C12_Witness ==
    \E t \in Threads :
        /\ call[t].op = "check" /\ call[t].pc = "check_lock"
        /\ clock = MAX_IDLE_DURATION + 1
        /\ last_cleanup = clock
        /\ call[t].key \in DOMAIN limiters
        /\ limiters[call[t].key].last_request = 1

\* this step is a step of the call of thread t
OwnStep(t) == call'[t] # call[t]

\* this step belongs to a call of operation op by thread t
StepOf(t, op) == OwnStep(t) /\ (call[t].op = op \/ call'[t].op = op)

\* the key of the call thread t is in during this step
StepKey(t) == IF call'[t].op = "none" THEN call[t].key ELSE call'[t].key

\* key k and its bucket are the same before and after this step
SameBucket(k) ==
    /\ k \in DOMAIN limiters <=> k \in DOMAIN limiters'
    /\ k \in DOMAIN limiters => limiters'[k] = limiters[k]

\* C13 reset(k): no step of a reset call changes last_cleanup or the bucket
\* of a key other than k, or enters the sweep; the step that removes returns
\* true exactly when k was in the map, leaves k absent, and returns false
\* when the last call on k was a reset too; the other steps of the call
\* leave the map as it is.
C13_ResetFrame ==
    [][\A t \in Threads :
          StepOf(t, "reset") =>
              /\ last_cleanup' = last_cleanup
              /\ \A k \in Keys \ {StepKey(t)} : SameBucket(k)
              /\ call'[t].pc \in {"reset_lock", "reset_remove", "done", "idle"}
              /\ IF call[t].pc = "reset_remove"
                 THEN /\ call'[t].ret = "removed" <=> call[t].key \in DOMAIN limiters
                      /\ call[t].key \notin DOMAIN limiters'
                      /\ lastop[call[t].key].kind = "reset" => call'[t].ret = "absent"
                 ELSE limiters' = limiters]_vars

\* C13 witness: a second reset of a key in a row returned false after the
\* first returned true, and the other key's bucket, which has admitted a
\* request, is still in the map.
C13_Witness ==
    \E t \in Threads :
        /\ call[t].op = "reset" /\ call[t].pc = "done"
        /\ call[t].key = "a"
        /\ call[t].ret = "absent"
        /\ call[t].before.kind = "reset"
        /\ "a" \notin DOMAIN limiters
        /\ "b" \in DOMAIN limiters
        /\ limiters["b"].last_request # None

\* C14 stats is observational: no step of a stats call changes the map, a
\* bucket or last_cleanup, or enters the sweep, and the step that counts is
\* taken by the owner of the map's mutex and returns the number of keys in
\* the map.
C14_StatsObserves ==
    [][\A t \in Threads :
          StepOf(t, "stats") =>
              /\ limiters' = limiters
              /\ last_cleanup' = last_cleanup
              /\ call'[t].pc \in {"stats_lock", "stats_len", "done", "idle"}
              /\ call[t].pc = "stats_len" =>
                    /\ rl_owner = t
                    /\ call'[t].ret = "count"
                    /\ call'[t].n = Cardinality(DOMAIN limiters)]_vars

\* C14 witness: stats returned 2 with two keys in the map, one of which has
\* never had a request admitted.
C14_Witness ==
    \E t \in Threads :
        /\ call[t].op = "stats" /\ call[t].pc = "done"
        /\ call[t].ret = "count" /\ call[t].n = 2
        /\ DOMAIN limiters = Keys
        /\ limiters["a"].last_request = None
        /\ limiters["b"].last_request # None

\* this step is the refill step (lines 44-47) of the check of thread t
RefillStep(t) == call[t].pc = "refill" /\ call'[t].pc # "refill"

\* this step is the consume step (lines 50-56) of the check of thread t
ConsumeStep(t) == call[t].pc = "consume" /\ call'[t].pc = "done"

\* C15 as stated: the refill step of every check runs to its end with
\* tokens_to_add = floor((now - last_refill) / interval), an elapsed time
\* over a zero interval being worth more tokens than any capacity; when
\* that is above 0, tokens becomes min(tokens + tokens_to_add, capacity) and
\* last_refill becomes now, else the bucket is left as it is.
C15_RefillStep ==
    [][\A t \in Threads :
          RefillStep(t) =>
              LET c == call[t]
                  l == limiters[c.key]
                  elapsed == c.now - l.last_refill
              IN
              /\ call'[t].pc = "consume"
              /\ IF l.interval > 0
                 THEN /\ c.tta = U32Of(elapsed \div l.interval)
                      /\ IF elapsed \div l.interval > 0
                         THEN limiters'[c.key] =
                                [l EXCEPT !.current_tokens =
                                              Min(@ + elapsed \div l.interval, l.burst_capacity),
                                          !.last_refill = c.now]
                         ELSE limiters'[c.key] = l
                 ELSE IF elapsed > 0
                      THEN limiters'[c.key] =
                             [l EXCEPT !.current_tokens = l.burst_capacity,
                                       !.last_refill = c.now]
                      ELSE limiters'[c.key] = l]_vars

\* less than one interval lies between last_refill of bucket l and now
NoIntervalElapsed(l, now) ==
    IF l.interval > 0 THEN now - l.last_refill < l.interval ELSE now = l.last_refill

C17_ExpiryRule ==
    [][\A t \in Threads :
          SweepStep(t) =>
              /\ \A k \in DOMAIN limiters :
                    /\ k \notin DOMAIN limiters' <=>
                          (/\ limiters[k].last_request # None
                           /\ clock - limiters[k].last_request > MAX_IDLE_DURATION)
                    /\ limiters[k].last_request = None => k \in DOMAIN limiters'
                    /\ k \in DOMAIN limiters' => limiters'[k] = limiters[k]
              /\ DOMAIN limiters' \subseteq DOMAIN limiters]_vars

\* C17 witness: the sweep at 3601 s has just removed one key and kept the
\* other, a bucket created at 0 s that has never admitted a request.
C17_Witness ==
    \E t \in Threads, k \in Keys :
        /\ call[t].op = "check" /\ call[t].pc = "check_lock"
        /\ clock = MAX_IDLE_DURATION + 1
        /\ last_cleanup = clock
        /\ lastop[k].kind = "evicted"
        /\ DOMAIN limiters = Keys \ {k}
        /\ \A j \in DOMAIN limiters :
              limiters[j].last_request = None /\ limiters[j].last_refill = 0

\* this step is the throttle test (lines 81-85) of the check of thread t
TestStep(t) == call[t].pc = "cleanup_now" /\ OwnStep(t)

\* C18 Sweep step of check: a check call starts at the gate of the sweep;
\* its test of now - last_cleanup leaves the map, last_cleanup and the
\* owner of the map's mutex as they are, and sends the call on to the lock
\* of the map when less than cleanup_interval has passed and to the scan
\* otherwise; the scan keeps exactly the entries that are not expired and
\* stores the now of the test in last_cleanup; and a call reaches the lock
\* of the map, and after it the lookup of its key, only from there.
C18_SweepFirst ==
    [][\A t \in Threads :
          /\ (call[t].pc = "idle" /\ call'[t].op = "check") =>
                call'[t].pc = "cleanup_lock"
          /\ TestStep(t) =>
                /\ limiters' = limiters
                /\ last_cleanup' = last_cleanup
                /\ rl_owner' = rl_owner
                /\ IF clock - last_cleanup < CLEANUP_INTERVAL
                   THEN call'[t].pc = "check_lock"
                   ELSE call'[t].pc = "cleanup_sweep" /\ call'[t].now = clock
          /\ SweepStep(t) =>
                /\ DOMAIN limiters' =
                      {k \in DOMAIN limiters :
                          \/ limiters[k].last_request = None
                          \/ clock - limiters[k].last_request <= MAX_IDLE_DURATION}
                /\ \A k \in DOMAIN limiters' : limiters'[k] = limiters[k]
                /\ last_cleanup' = call[t].now
          /\ (OwnStep(t) /\ call'[t].pc = "check_lock") =>
                call[t].pc \in {"cleanup_now", "cleanup_sweep"}
          /\ (OwnStep(t) /\ call'[t].pc = "entry") => call[t].pc = "check_lock"]_vars

\* C18 witness: the sweep at 3601 s has removed the key of a check that has
\* not yet taken the lock of the map, while the other caller is idle.
C18_Witness ==
    \E t \in Threads :
        /\ call[t].op = "check" /\ call[t].pc = "check_lock"
        /\ \A u \in Threads \ {t} : call[u].pc = "idle"
        /\ clock = MAX_IDLE_DURATION + 1
        /\ last_cleanup = clock
        /\ lastop[call[t].key].kind = "evicted"
        /\ call[t].key \notin DOMAIN limiters

\* this step is the lookup-or-create (lines 108-110) of the check of thread t
EntryStep(t) == call[t].pc = "entry" /\ call'[t].pc = "check_now"

\* C19 Lazy creation: the lookup of a check on an absent key adds exactly
\* one entry to the map, for that key, with the call's interval and
\* capacity, tokens = capacity, last_refill = now and no last_request, and
\* goes on to the algorithm; the lookup on a key that is present leaves the
\* map as it is; and no other step of a check call but the scan of the
\* sweep changes the set of keys.
C19_LazyCreation ==
    [][\A t \in Threads :
          LET c == call[t] IN
          /\ EntryStep(t) =>
                IF c.key \in DOMAIN limiters
                THEN limiters' = limiters
                ELSE /\ DOMAIN limiters' = DOMAIN limiters \cup {c.key}
                     /\ Cardinality(DOMAIN limiters') = Cardinality(DOMAIN limiters) + 1
                     /\ \A k \in DOMAIN limiters : limiters'[k] = limiters[k]
                     /\ limiters'[c.key].interval = c.interval
                     /\ limiters'[c.key].burst_capacity = c.burst
                     /\ limiters'[c.key].current_tokens = c.burst
                     /\ limiters'[c.key].last_refill = clock
                     /\ limiters'[c.key].last_request = None
          /\ (StepOf(t, "check") /\ ~EntryStep(t) /\ ~SweepStep(t)) =>
                DOMAIN limiters' = DOMAIN limiters]_vars

\* C19 witness: a check at 300 s has just created the second entry of the
\* map, a bucket of capacity 1 with its one token, next to a bucket that has
\* admitted a request.
C19_Witness ==
    \E t \in Threads, k \in Keys :
        /\ AtAlgorithm(t)
        /\ call[t].key # k
        /\ DOMAIN limiters = Keys
        /\ limiters[k].last_request # None
        /\ clock = CLEANUP_INTERVAL
        /\ limiters[call[t].key] = new_with_burst(call[t].interval, 1, clock)

\* C20 Single-lock discipline: every step that changes the map or stores
\* to last_cleanup is taken by a thread that holds the RATE_LIMITERS mutex:
\* it is the owner, or it is the scan of the sweep, which takes the mutex
\* when it is free and drops it with the step; no other thread is between
\* taking and dropping that mutex.
C20_SingleLock ==
    [][(\/ limiters' # limiters
        \/ last_cleanup # None /\ last_cleanup' # last_cleanup) =>
          \E t \in Threads :
              /\ OwnStep(t)
              /\ \/ rl_owner = t
                 \/ SweepStep(t) /\ rl_owner = NoThread
              /\ \A u \in Threads \ {t} : ~InMapSection(u)]_vars

\* C20 witness: a thread that owns LAST_CLEANUP and is due to scan waits
\* while the other thread, inside reset, owns the mutex of the map.
C20_Witness ==
    \E t, u \in Threads :
        /\ call[t].pc = "cleanup_sweep" /\ cl_owner = t
        /\ call[u].op = "reset" /\ call[u].pc = "reset_remove" /\ rl_owner = u
        /\ call[u].key \in DOMAIN limiters

\* C25 Key isolation: no step of a check on key k changes the bucket of
\* another key or brings another key into the map; another key leaves the
\* map only in the scan of the sweep, and only when its bucket has a
\* last_request more than max_idle_duration before the instant of the scan.
C25_KeyIsolation ==
    [][\A t \in Threads :
          StepOf(t, "check") =>
              \A k \in Keys \ {StepKey(t)} :
                  /\ k \in DOMAIN limiters' =>
                        k \in DOMAIN limiters /\ limiters'[k] = limiters[k]
                  /\ (k \in DOMAIN limiters /\ k \notin DOMAIN limiters') =>
                        /\ SweepStep(t)
                        /\ limiters[k].last_request # None
                        /\ clock - limiters[k].last_request > MAX_IDLE_DURATION]_vars

\* C25 witness: a check on one key has run the sweep at 3601 s, which
\* removed the other key, and is now inside the algorithm on its own bucket.
C25_Witness ==
    \E t \in Threads, k \in Keys :
        /\ InCheckBody(t)
        /\ call[t].key # k
        /\ lastop[k].kind = "evicted"
        /\ k \notin DOMAIN limiters
        /\ last_cleanup = MAX_IDLE_DURATION + 1
        /\ limiters[call[t].key].last_refill < clock

\* C23 as stated: a sweep that a check on another key runs more than
\* max_idle_duration after the last check on key k removes k from the map,
\* whether or not the bucket of k has ever admitted a request.
C23_Original ==
    [][\A t \in Threads :
          SweepStep(t) =>
              \A k \in DOMAIN limiters \ {StepKey(t)} :
                  call[t].now - LastChecked(k) > MAX_IDLE_DURATION =>
                      k \notin DOMAIN limiters']_vars

\* C23 amended: a sweep that a check on another key runs more than
\* max_idle_duration after the last admitted request of key k removes k
\* from the map; a bucket that has never admitted a request is kept, as it
\* is, by every sweep.
C23_AbandonedEvicted ==
    [][\A t \in Threads :
          SweepStep(t) =>
              \A k \in DOMAIN limiters \ {StepKey(t)} :
                  IF limiters[k].last_request = None
                  THEN k \in DOMAIN limiters' /\ limiters'[k] = limiters[k]
                  ELSE call[t].now - limiters[k].last_request > MAX_IDLE_DURATION =>
                          k \notin DOMAIN limiters']_vars

\* C23 witness: the first check on key b, at 3601 s, has run the sweep that
\* removed the abandoned key a, and has not yet created its own bucket.
C23_Witness ==
    \E t \in Threads :
        /\ call[t].op = "check" /\ call[t].pc = "check_lock"
        /\ call[t].key = "b"
        /\ lastop["a"].kind = "evicted"
        /\ lastop["b"].kind = "none"
        /\ limiters = << >>
        /\ last_cleanup = MAX_IDLE_DURATION + 1

\* thread t is inside a call that has not produced its result
Pending(t) == call[t].pc \notin {"idle", "done"}

RECURSIVE SumOver(_, _)
SumOver(f, S) ==
    IF S = {} THEN 0
    ELSE LET x == CHOOSE y \in S : TRUE IN f[x] + SumOver(f, S \ {x})

\* the instants of the window from s to e
Window(s, e) == {i \in ObsInstants : s <= i /\ i <= e}

\* the checks on key k admitted at an instant of the window from s to e
AdmittedIn(k, s, e) == SumOver(obs[k].adm, Window(s, e))

\* C22 as stated: for a key always checked with the same interval I > 0
\* and capacity C and never reset, the checks admitted in any window of
\* length W are at most C + floor(W / I).
C22_Original ==
    \A k \in DOMAIN obs :
        \A s, e \in ObsInstants :
            s <= e =>
                AdmittedIn(k, s, e) <= obs[k].burst + (e - s) \div obs[k].interval

\* C22 amended: the same bound, for every window in which no check created
\* a bucket for the key (the key was neither seen for the first time nor
\* seen again after an eviction by a check made in the window).
C22_RateBound ==
    \A k \in DOMAIN obs :
        \A s, e \in ObsInstants :
            (s <= e /\ obs[k].born \cap Window(s, e) = {}) =>
                AdmittedIn(k, s, e) <= obs[k].burst + (e - s) \div obs[k].interval

\* C22 witness: a bucket of capacity 2 and interval 3601 s created at 0 s
\* has admitted one check at 300 s and, with the token accrued since 0 s,
\* one at 3601 s: two in a window of 3301 s, the bound exactly.
C22_Witness ==
    /\ "a" \in DOMAIN obs
    /\ obs["a"].interval = MAX_IDLE_DURATION + 1 /\ obs["a"].burst = 2
    /\ obs["a"].born = {0}
    /\ AdmittedIn("a", CLEANUP_INTERVAL, MAX_IDLE_DURATION + 1) = 2
    /\ obs["a"].adm[MAX_IDLE_DURATION + 1] = 1

\* C24 as stated: for a key always checked with the same interval I > 0
\* and capacity C with I * C <= max_idle_duration, every check so far got
\* the decision it gets from the bucket the key keeps when no sweep runs.
C24_EvictionUnobservable ==
    \A k \in DOMAIN obs :
        (obs[k].interval > 0 /\ obs[k].interval * obs[k].burst <= MAX_IDLE_DURATION)
            => obs[k].same

====
